---- MODULE Spec2Model ----
(***************************************************************************)
(* Hubitat integration driver for the Unfolded Circle remote.             *)
(*                                                                         *)
(* The model follows the four source files:                               *)
(*   driver.py    globals hubitat_client / entities, device_command_handler,*)
(*                load_devices, the setup flow and main                    *)
(*   hubitat.py   HubitatClient (get_all_devices, get_device, send_command,*)
(*                test_connection)                                         *)
(*   config.py    ConfigurationManager (load, save, clear)                 *)
(*   entities.py  EntityMapper (classification and entity construction)    *)
(*                                                                         *)
(* Python values are encoded as follows.                                   *)
(*   None                 the record None                                  *)
(*   a JSON number n      Num(n)   = [num |-> n]                           *)
(*   a JSON string s      Str(s)   = [str |-> s]                           *)
(*   a JSON list          Lst(seq) = [list |-> seq]                        *)
(*   a dict               a function whose domain is its set of keys       *)
(*   a raised exception   the record Raise                                 *)
(* Values of different Python types are records with different field      *)
(* names, so that they compare unequal the way they do in Python.          *)
(***************************************************************************)
EXTENDS Integers, Sequences, FiniteSets, TLC

VARIABLES
    pc,              \* "boot" until main() has run, then "running"
    hubitat_client,  \* driver.py:21, None or a HubitatClient
    entities,        \* driver.py:22, dict device id -> entity
    config_file,     \* the content of <config_dir>/config.json
    last             \* record of the most recent operation and what it did

vars == <<pc, hubitat_client, entities, config_file, last>>

----------------------------------------------------------------------------
(* Bounds *)

\* Number of devices the hub of the driver's life has (ids 1..MaxDevices).
MaxDevices == 4

\* Longest device listing tried on get_all_devices.
MaxListed == 3

\* Longest capability list tried on get_entity_type.
MaxCaps == 3

----------------------------------------------------------------------------
(* Python values *)

None == [none |-> TRUE]
Raise == [raise |-> TRUE]
Num(n) == [num |-> n]
Str(s) == [str |-> s]
Lst(q) == [list |-> q]

IsNone(v) == "none" \in DOMAIN v
IsRaise(v) == "raise" \in DOMAIN v
IsNum(v) == "num" \in DOMAIN v
IsStr(v) == "str" \in DOMAIN v
IsList(v) == "list" \in DOMAIN v

EmptyDict == [k \in {} |-> None]

\* dict.get(k, default)
Get(d, k, default) == IF k \in DOMAIN d THEN d[k] ELSE default

\* d[k] = v
Put(d, k, v) == [x \in (DOMAIN d) \cup {k} |-> IF x = k THEN v ELSE d[x]]

\* The decimal strings the model uses, with the number each denotes.
NumericStrings == [s \in {"50", "21"} |-> IF s = "50" THEN 50 ELSE 21]

\* float(v): a number stays that number, a numeric string is parsed, anything
\* else (a non-numeric string, None, a list) raises ValueError / TypeError.
Float(v) ==
    IF IsNum(v) THEN v
    ELSE IF IsStr(v) /\ v.str \in DOMAIN NumericStrings THEN Num(NumericStrings[v.str])
    ELSE Raise

\* int(v), on the values the model uses (no fractional numbers).
Int_(v) == Float(v)

----------------------------------------------------------------------------
(* hubitat.py: HubitatClient *)

\* What the hub does with one HTTP request: it answers with a status, or the
\* transport fails (connection refused, timeout) and session.get raises.
R200 == [status |-> 200]
R500 == [status |-> 500]
Refused == [error |-> "ClientConnectorError"]
Responses == {R200, R500, Refused}

\* "".rstrip("/") on the addresses the model uses.
RStripSlash == [s \in {"", "hub", "hub/"} |-> IF s = "hub/" THEN "hub" ELSE s]

\* HubitatClient.__init__
HubitatClient(hub_address, app_id, access_token) ==
    [hub_address |-> RStripSlash[hub_address],
     app_id |-> app_id,
     access_token |-> access_token]

\* A faulty variant of send_command: every answered request counts as success.
send_command_any_status(resp) == "status" \in DOMAIN resp

\* HubitatClient.send_command, as a function of the hub's response: True on
\* HTTP 200, False on another status; an exception of session.get is caught
\* and gives False.
send_command(resp) ==
    IF "status" \in DOMAIN resp
    THEN resp.status = 200
    ELSE FALSE

----------------------------------------------------------------------------
(* driver.py: device_command_handler *)

\* ucapi command identifiers (ucapi.light.Commands, ucapi.switch.Commands,
\* ucapi.climate.Commands) and one identifier no entity kind recognizes.
CMD_ON == "on"
CMD_OFF == "off"
CMD_TOGGLE == "toggle"
CMD_HVAC_MODE == "hvac_mode"
CMD_TARGET_TEMPERATURE == "target_temperature"
CMD_TARGET_TEMPERATURE_HEAT == "target_temperature_heat"
CMD_TARGET_TEMPERATURE_COOL == "target_temperature_cool"
CMD_UNKNOWN == "fan_mode"

\* The handler's progress: the entity's attribute dict (mutated in place), the
\* hub requests made so far, and whether an exception has been raised (then
\* the remaining statements of the try block are skipped).
Begin(entity) == [attributes |-> entity.attributes, sent |-> <<>>, exc |-> FALSE]

\* await hubitat_client.send_command(device_id, command, parameters); the
\* hub answers the n-th request of this call with hub[n].  The returned bool
\* is computed and dropped by every caller in the handler.
Send(h, device_id, command, parameters, hub) ==
    IF h.exc THEN h
    ELSE LET resp == hub[Len(h.sent) + 1] IN
         [h EXCEPT !.sent = Append(@, [device_id |-> device_id,
                                       command |-> command,
                                       parameters |-> parameters,
                                       resp |-> resp,
                                       ret |-> send_command(resp)])]

\* entity.attributes[k] = v
SetAttr(h, k, v) ==
    IF h.exc THEN h ELSE [h EXCEPT !.attributes = Put(@, k, v)]

\* entity.attributes[k] = float(temp)
SetFloat(h, k, temp) ==
    IF h.exc THEN h
    ELSE IF IsRaise(Float(temp)) THEN [h EXCEPT !.exc = TRUE]
    ELSE [h EXCEPT !.attributes = Put(@, k, Float(temp))]

\* "if params:" is false for None and for the empty dict; both are the empty
\* function here.
Truthy(params) == DOMAIN params # {}

\* A faulty variant of LightOn: the plain on is sent first, and setColor is
\* sent when either hue or saturation is supplied.
LightOnFirst(h, id, params, hub) ==
    LET h0 == SetAttr(Send(h, id, "on", <<>>, hub), "state", "ON")
        h1 == IF Truthy(params) /\ "brightness" \in DOMAIN params
              THEN SetAttr(Send(h0, id, "setLevel", <<params["brightness"]>>, hub),
                           "brightness", params["brightness"])
              ELSE h0
        h2 == IF Truthy(params) /\ ("hue" \in DOMAIN params \/ "saturation" \in DOMAIN params)
              THEN SetAttr(SetAttr(Send(h1, id, "setColor",
                                        <<[hue |-> Get(params, "hue", Num(0)),
                                           saturation |-> Get(params, "saturation", Num(0))]>>,
                                        hub),
                                   "hue", Get(params, "hue", Num(0))),
                           "saturation", Get(params, "saturation", Num(0)))
              ELSE h1
    IN  IF Truthy(params) /\ "color_temperature" \in DOMAIN params
        THEN SetAttr(Send(h2, id, "setColorTemperature",
                          <<params["color_temperature"]>>, hub),
                     "color_temperature", params["color_temperature"])
        ELSE h2

\* driver.py:50-75
LightOn(h, id, params, hub) ==
    LET h1 == IF Truthy(params) /\ "brightness" \in DOMAIN params
              THEN SetAttr(Send(h, id, "setLevel", <<params["brightness"]>>, hub),
                           "brightness", params["brightness"])
              ELSE h
        h2 == IF Truthy(params) /\ "hue" \in DOMAIN params /\ "saturation" \in DOMAIN params
              THEN SetAttr(SetAttr(Send(h1, id, "setColor",
                                        <<[hue |-> params["hue"],
                                           saturation |-> params["saturation"]]>>, hub),
                                   "hue", params["hue"]),
                           "saturation", params["saturation"])
              ELSE h1
        h3 == IF Truthy(params) /\ "color_temperature" \in DOMAIN params
              THEN SetAttr(Send(h2, id, "setColorTemperature",
                                <<params["color_temperature"]>>, hub),
                           "color_temperature", params["color_temperature"])
              ELSE h2
    IN  SetAttr(Send(h3, id, "on", <<>>, hub), "state", "ON")

\* A faulty variant of TurnOff: the cached state is set and nothing is sent.
TurnOffUnsent(h, id, hub) == SetAttr(h, "state", "OFF")

\* driver.py:77-79, 98-100, 131-133
TurnOff(h, id, hub) == SetAttr(Send(h, id, "off", <<>>, hub), "state", "OFF")

\* driver.py:94-96
SwitchOn(h, id, hub) == SetAttr(Send(h, id, "on", <<>>, hub), "state", "ON")

\* A faulty variant of Toggle: it sends the command for the state the entity is in.
ToggleSame(h, id, hub) ==
    IF Get(h.attributes, "state", "OFF") = "ON"
    THEN SetAttr(Send(h, id, "on", <<>>, hub), "state", "ON")
    ELSE SetAttr(Send(h, id, "off", <<>>, hub), "state", "OFF")

\* driver.py:81-88 (light) and 102-109 (switch): the same statements
Toggle(h, id, hub) ==
    IF Get(h.attributes, "state", "OFF") = "ON"
    THEN SetAttr(Send(h, id, "off", <<>>, hub), "state", "OFF")
    ELSE SetAttr(Send(h, id, "on", <<>>, hub), "state", "ON")

\* A faulty variant of ClimateOn: the cached mode is ignored and heat is sent.
ClimateOnAlwaysHeat(h, id, hub) ==
    SetAttr(Send(h, id, "heat", <<>>, hub), "state", "HEAT")

\* driver.py:115-129
ClimateOn(h, id, hub) ==
    LET cached == Get(h.attributes, "state", "HEAT")
        last_mode == IF cached = "OFF" THEN "HEAT" ELSE cached
    IN  IF last_mode = "HEAT" THEN SetAttr(Send(h, id, "heat", <<>>, hub), "state", "HEAT")
        ELSE IF last_mode = "COOL" THEN SetAttr(Send(h, id, "cool", <<>>, hub), "state", "COOL")
        ELSE IF last_mode = "AUTO" THEN SetAttr(Send(h, id, "auto", <<>>, hub), "state", "AUTO")
        ELSE h

\* driver.py:135-150
HvacMode(h, id, params, hub) ==
    IF Truthy(params) /\ "hvac_mode" \in DOMAIN params
    THEN LET mode == params["hvac_mode"] IN
         IF mode = Str("off") THEN SetAttr(Send(h, id, "off", <<>>, hub), "state", "OFF")
         ELSE IF mode = Str("heat") THEN SetAttr(Send(h, id, "heat", <<>>, hub), "state", "HEAT")
         ELSE IF mode = Str("cool") THEN SetAttr(Send(h, id, "cool", <<>>, hub), "state", "COOL")
         ELSE IF mode = Str("auto") THEN SetAttr(Send(h, id, "auto", <<>>, hub), "state", "AUTO")
         ELSE h
    ELSE h

\* driver.py:171-177
TargetTemperatureHeat(h, id, params, hub) ==
    IF Truthy(params) /\ "temperature" \in DOMAIN params
    THEN LET temp == params["temperature"] IN
         SetFloat(SetFloat(Send(h, id, "setHeatingSetpoint", <<temp>>, hub),
                           "target_temperature_heat", temp),
                  "target_temperature", temp)
    ELSE h

\* driver.py:179-185
TargetTemperatureCool(h, id, params, hub) ==
    IF Truthy(params) /\ "temperature" \in DOMAIN params
    THEN LET temp == params["temperature"] IN
         SetFloat(SetFloat(Send(h, id, "setCoolingSetpoint", <<temp>>, hub),
                           "target_temperature_cool", temp),
                  "target_temperature", temp)
    ELSE h

\* A faulty variant of TargetTemperature: the COOL branch is missing, so COOL takes
\* the default (heating setpoint) path.
TargetTemperatureNoCool(h, id, params, hub) ==
    IF Truthy(params) /\ "temperature" \in DOMAIN params
    THEN LET temp == params["temperature"]
             current_state == Get(h.attributes, "state", "HEAT")
         IN  IF current_state = "HEAT"
             THEN SetFloat(SetFloat(Send(h, id, "setHeatingSetpoint", <<temp>>, hub),
                                    "target_temperature_heat", temp),
                           "target_temperature", temp)
             ELSE SetFloat(Send(h, id, "setHeatingSetpoint", <<temp>>, hub),
                           "target_temperature", temp)
    ELSE h

\* driver.py:152-169
TargetTemperature(h, id, params, hub) ==
    IF Truthy(params) /\ "temperature" \in DOMAIN params
    THEN LET temp == params["temperature"]
             current_state == Get(h.attributes, "state", "HEAT")
         IN  IF current_state = "HEAT"
             THEN SetFloat(SetFloat(Send(h, id, "setHeatingSetpoint", <<temp>>, hub),
                                    "target_temperature_heat", temp),
                           "target_temperature", temp)
             ELSE IF current_state = "COOL"
             THEN SetFloat(SetFloat(Send(h, id, "setCoolingSetpoint", <<temp>>, hub),
                                    "target_temperature_cool", temp),
                           "target_temperature", temp)
             ELSE SetFloat(Send(h, id, "setHeatingSetpoint", <<temp>>, hub),
                           "target_temperature", temp)
    ELSE h

\* driver.py:49-90, the isinstance(entity, ucapi.Light) branch
LightCommand(h, id, cmd_id, params, hub) ==
    IF cmd_id = CMD_ON THEN LightOn(h, id, params, hub)
    ELSE IF cmd_id = CMD_OFF THEN TurnOff(h, id, hub)
    ELSE IF cmd_id = CMD_TOGGLE THEN Toggle(h, id, hub)
    ELSE h

\* driver.py:93-111, the isinstance(entity, ucapi.Switch) branch
SwitchCommand(h, id, cmd_id, hub) ==
    IF cmd_id = CMD_ON THEN SwitchOn(h, id, hub)
    ELSE IF cmd_id = CMD_OFF THEN TurnOff(h, id, hub)
    ELSE IF cmd_id = CMD_TOGGLE THEN Toggle(h, id, hub)
    ELSE h

\* driver.py:114-187, the isinstance(entity, ucapi.Climate) branch
ClimateCommand(h, id, cmd_id, params, hub) ==
    IF cmd_id = CMD_ON THEN ClimateOn(h, id, hub)
    ELSE IF cmd_id = CMD_OFF THEN TurnOff(h, id, hub)
    ELSE IF cmd_id = CMD_HVAC_MODE THEN HvacMode(h, id, params, hub)
    ELSE IF cmd_id = CMD_TARGET_TEMPERATURE THEN TargetTemperature(h, id, params, hub)
    ELSE IF cmd_id = CMD_TARGET_TEMPERATURE_HEAT THEN TargetTemperatureHeat(h, id, params, hub)
    ELSE IF cmd_id = CMD_TARGET_TEMPERATURE_COOL THEN TargetTemperatureCool(h, id, params, hub)
    ELSE h

\* A faulty variant of Dispatch: an entity of no handled class is treated as a switch.
DispatchDefaultSwitch(entity, cmd_id, params, hub) ==
    IF entity.kind = "light" THEN LightCommand(Begin(entity), entity.id, cmd_id, params, hub)
    ELSE IF entity.kind = "climate"
    THEN ClimateCommand(Begin(entity), entity.id, cmd_id, params, hub)
    ELSE SwitchCommand(Begin(entity), entity.id, cmd_id, hub)

\* driver.py:47-187, the body of the try block: dispatch on the entity's class
Dispatch(entity, cmd_id, params, hub) ==
    IF entity.kind = "light" THEN LightCommand(Begin(entity), entity.id, cmd_id, params, hub)
    ELSE IF entity.kind = "switch" THEN SwitchCommand(Begin(entity), entity.id, cmd_id, hub)
    ELSE IF entity.kind = "climate"
    THEN ClimateCommand(Begin(entity), entity.id, cmd_id, params, hub)
    ELSE Begin(entity)

\* A faulty variant of Outcome: a failed hub request is reported and rolled back.
OutcomeChecked(entity, h) ==
    IF h.exc \/ \E i \in 1..Len(h.sent) : ~h.sent[i].ret
    THEN [status |-> "SERVER_ERROR", attributes |-> entity.attributes, sent |-> h.sent]
    ELSE [status |-> "OK", attributes |-> h.attributes, sent |-> h.sent]

\* driver.py:189-193: OK when the try block ran to its end, SERVER_ERROR when
\* it raised; the attributes keep what was assigned before the exception.
Outcome(entity, h) ==
    [status |-> IF h.exc THEN "SERVER_ERROR" ELSE "OK",
     attributes |-> h.attributes,
     sent |-> h.sent]

\* A faulty variant of device_command_handler: the client is not checked.
device_command_handler_unchecked(client, entity, cmd_id, params, hub) ==
    Outcome(entity, Dispatch(entity, cmd_id, params, hub))

\* driver.py:25-193
device_command_handler(client, entity, cmd_id, params, hub) ==
    IF IsNone(client)
    THEN [status |-> "SERVICE_UNAVAILABLE", attributes |-> entity.attributes, sent |-> <<>>]
    ELSE Outcome(entity, Dispatch(entity, cmd_id, params, hub))

----------------------------------------------------------------------------
(* entities.py: EntityMapper *)

\* The n-th element of a capability list as a bare name: a string is itself,
\* an object gives its "name" or "" (entities.py:67).
CapName(cap) == IF IsStr(cap) THEN cap.str ELSE Get(cap, "name", "")

\* entities.py:64-69: the capability names of a device, [] when the device
\* has no list of capabilities.
CapList(device) ==
    LET capabilities == Get(device, "capabilities", Lst(<<>>)) IN
    IF IsList(capabilities)
    THEN [i \in 1..Len(capabilities.list) |-> CapName(capabilities.list[i])]
    ELSE <<>>

\* x in cap_list
Has(cap_list, x) == \E i \in 1..Len(cap_list) : cap_list[i] = x

\* A faulty variant of get_entity_type: the switch test comes before the light test.
get_entity_type_switch_first(device) ==
    LET cap_list == CapList(device) IN
    IF Has(cap_list, "Thermostat") THEN Str("climate")
    ELSE IF Has(cap_list, "Switch") THEN Str("switch")
    ELSE IF Has(cap_list, "Light") \/ Has(cap_list, "ColorControl")
    THEN Str("light")
    ELSE IF Has(cap_list, "Lock") THEN Str("lock")
    ELSE None

\* entities.py:53-93
get_entity_type(device) ==
    LET cap_list == CapList(device) IN
    IF Has(cap_list, "Thermostat") THEN Str("climate")
    ELSE IF Has(cap_list, "Light") \/ Has(cap_list, "ColorControl")
            \/ (Has(cap_list, "Switch") /\ Has(cap_list, "SwitchLevel"))
    THEN Str("light")
    ELSE IF Has(cap_list, "Switch") THEN Str("switch")
    ELSE IF Has(cap_list, "Lock") THEN Str("lock")
    ELSE None

\* The dict built from the first n entries of an attribute list: an entry
\* that is a dict with "name" and "currentValue" sets that key, later entries
\* overwrite earlier ones (entities.py:45-49).
RECURSIVE NormalizeList(_, _)
NormalizeList(q, n) ==
    IF n = 0 THEN EmptyDict
    ELSE LET attr == q[n]
             rest == NormalizeList(q, n - 1)
         IN  IF "name" \in DOMAIN attr /\ "currentValue" \in DOMAIN attr
             THEN Put(rest, attr["name"], attr["currentValue"])
             ELSE rest

\* entities.py:31-51.  A dict is returned as it is, a list is folded into a
\* dict, anything else (None, a string, a number) gives {}.
normalize_attributes(attributes) ==
    IF IsList(attributes) THEN NormalizeList(attributes.list, Len(attributes.list))
    ELSE IF IsNone(attributes) \/ IsStr(attributes) \/ IsNum(attributes) THEN EmptyDict
    ELSE attributes

\* str(device["id"])
DeviceId(device) == ToString(device["id"].num)

\* How an entity under construction stands: its attributes so far and whether
\* a conversion has raised.
SetConv(b, k, v) ==
    IF b.exc THEN b
    ELSE IF IsRaise(v) THEN [b EXCEPT !.exc = TRUE]
    ELSE [b EXCEPT !.attributes = Put(@, k, v)]

Built(device, kind, features, b) ==
    IF b.exc THEN Raise
    ELSE [id |-> DeviceId(device), kind |-> kind, features |-> features,
          attributes |-> b.attributes]

\* entities.py:96-171
create_light_entity(device) ==
    LET cap_list == CapList(device)
        features == <<"on_off">>
                    \o (IF Has(cap_list, "SwitchLevel") THEN <<"dim">> ELSE <<>>)
                    \o (IF Has(cap_list, "ColorControl") THEN <<"color">> ELSE <<>>)
                    \o (IF Has(cap_list, "ColorTemperature")
                        THEN <<"color_temperature">> ELSE <<>>)
        attributes == normalize_attributes(Get(device, "attributes", EmptyDict))
        state == IF Get(attributes, "switch", Str("off")) = Str("on") THEN "ON" ELSE "OFF"
        b0 == [attributes |-> [k \in {"state"} |-> state], exc |-> FALSE]
        level == Get(attributes, "level", Num(0))
        b1 == IF Has(features, "dim")
              THEN SetConv(b0, "brightness", IF IsNone(level) THEN Num(0) ELSE Int_(level))
              ELSE b0
        hue == Get(attributes, "hue", Num(0))
        saturation == Get(attributes, "saturation", Num(0))
        b2 == IF Has(features, "color")
              THEN IF ~IsNone(hue) /\ ~IsNone(saturation)
                   THEN SetConv(SetConv(b1, "hue", Float(hue)), "saturation", Float(saturation))
                   ELSE SetConv(SetConv(b1, "hue", Num(0)), "saturation", Num(0))
              ELSE b1
        color_temp == Get(attributes, "colorTemperature", Num(0))
        b3 == IF Has(features, "color_temperature")
              THEN SetConv(b2, "color_temperature",
                           IF IsNone(color_temp) THEN Num(0) ELSE Int_(color_temp))
              ELSE b2
    IN  Built(device, "light", features, b3)

\* entities.py:256-284
create_switch_entity(device) ==
    LET attributes == normalize_attributes(Get(device, "attributes", EmptyDict))
        state == IF Get(attributes, "switch", Str("off")) = Str("on") THEN "ON" ELSE "OFF"
    IN  Built(device, "switch", <<"on_off">>,
              [attributes |-> [k \in {"state"} |-> state], exc |-> FALSE])

\* json.loads on the strings the model uses: the text of a JSON list of mode
\* names decodes to that list, the text of a JSON number to the number, the
\* text null to None, the text of a JSON string to the string; text that is
\* not JSON raises.
JsonLoads(s) ==
    IF s = "[\"heat\",\"cool\"]" THEN Lst(<<Str("heat"), Str("cool")>>)
    ELSE IF s = "[\"heat\"]" THEN Lst(<<Str("heat")>>)
    ELSE IF s = "[]" THEN Lst(<<>>)
    ELSE IF s = "5" THEN Num(5)
    ELSE IF s = "null" THEN None
    ELSE IF s = "\"heat\"" THEN Str("heat")
    ELSE Raise

\* Whether "x in container" can be evaluated: a number or None is not
\* iterable and the test raises TypeError.
Iterable(container) == IsList(container) \/ IsStr(container)

\* x in container: membership in a list, containment in a string (on the
\* strings the model uses none properly contains a mode name).
In_(x, container) ==
    IF IsList(container)
    THEN \E i \in 1..Len(container.list) : container.list[i] = Str(x)
    ELSE container.str = x

\* entities.py:192-199: supported_modes, the decoded attribute; text that is
\* not JSON gives [], a value that is no string is taken as it is.
SupportedModes(attributes) ==
    LET supported_modes_str == Get(attributes, "supportedThermostatModes", Str("[]"))
        loaded == IF IsStr(supported_modes_str)
                  THEN JsonLoads(supported_modes_str.str)
                  ELSE supported_modes_str
    IN  IF IsRaise(loaded) THEN Lst(<<>>) ELSE loaded

\* entities.py:191, 201-204: the features, for supported_modes that the "in"
\* tests accept
ClimateFeatures(supported_modes) ==
    <<"on_off">>
    \o (IF In_("heat", supported_modes) THEN <<"heat">> ELSE <<>>)
    \o (IF In_("cool", supported_modes) THEN <<"cool">> ELSE <<>>)

\* entities.py:206-217
ClimateState(attributes) ==
    LET current_mode == Get(attributes, "thermostatMode", Str("off")) IN
    IF current_mode = Str("off") THEN "OFF"
    ELSE IF current_mode = Str("heat") THEN "HEAT"
    ELSE IF current_mode = Str("cool") THEN "COOL"
    ELSE IF current_mode = Str("auto") THEN "AUTO"
    ELSE "OFF"

\* entities.py:174-254
create_climate_entity(device) ==
    LET attributes == normalize_attributes(Get(device, "attributes", EmptyDict))
        supported_modes == SupportedModes(attributes)
        features == ClimateFeatures(supported_modes)
        b0 == [attributes |-> [k \in {"state"} |-> ClimateState(attributes)], exc |-> FALSE]
        current_temp == Get(attributes, "temperature", Num(20))
        b1 == SetConv(b0, "current_temperature",
                      IF IsNone(current_temp) THEN Num(20) ELSE Float(current_temp))
        target_temp == Get(attributes, "thermostatSetpoint", Num(20))
        b2 == SetConv(b1, "target_temperature",
                      IF IsNone(target_temp) THEN Num(20) ELSE Float(target_temp))
        heat_setpoint == Get(attributes, "heatingSetpoint", Num(20))
        b3 == IF Has(features, "heat") /\ ~IsNone(heat_setpoint)
              THEN SetConv(b2, "target_temperature_heat", Float(heat_setpoint))
              ELSE b2
        cool_setpoint == Get(attributes, "coolingSetpoint", Num(24))
        b4 == IF Has(features, "cool") /\ ~IsNone(cool_setpoint)
              THEN SetConv(b3, "target_temperature_cool", Float(cool_setpoint))
              ELSE b3
    IN  IF ~Iterable(supported_modes) THEN Raise
        ELSE Built(device, "climate", features, b4)

----------------------------------------------------------------------------
(* The hub: the devices behind the Maker API *)

DeviceIds == 1..MaxDevices

\* What GET /devices lists for a device: id, name and type only.
BasicDevice(i) == [id |-> Num(i), name |-> Str("device"), type |-> Str("driver")]

Dimmer(i) ==
    [id |-> Num(i),
     capabilities |-> Lst(<<Str("Switch"), Str("SwitchLevel")>>),
     attributes |-> Lst(<<[name |-> "switch", currentValue |-> Str("off")],
                          [name |-> "level", currentValue |-> Str("50")]>>)]

Outlet(i) ==
    [id |-> Num(i),
     capabilities |-> Lst(<<[name |-> "Switch"]>>),
     attributes |-> [switch |-> Str("on")]]

Thermostat(i) ==
    [id |-> Num(i),
     capabilities |-> Lst(<<Str("TemperatureMeasurement"), Str("Thermostat")>>),
     attributes |-> Lst(<<[name |-> "thermostatMode", currentValue |-> Str("cool")],
                          [name |-> "supportedThermostatModes",
                           currentValue |-> Str("[\"heat\",\"cool\"]")],
                          [name |-> "temperature", currentValue |-> Num(22)],
                          [name |-> "thermostatSetpoint", currentValue |-> Num(24)],
                          [name |-> "heatingSetpoint", currentValue |-> Num(20)],
                          [name |-> "coolingSetpoint", currentValue |-> Num(24)]>>)]

DoorLock(i) ==
    [id |-> Num(i),
     capabilities |-> Lst(<<Str("Lock")>>),
     attributes |-> [lock |-> Str("locked")]]

\* What GET /devices/<id> returns for device i: the hub has a dimmer, an
\* outlet, a thermostat and a lock, then the same kinds again.
FullDevice(i) ==
    IF i % 4 = 1 THEN Dimmer(i)
    ELSE IF i % 4 = 2 THEN Outlet(i)
    ELSE IF i % 4 = 3 THEN Thermostat(i)
    ELSE DoorLock(i)

\* The hub during one enumeration: its answer to GET /devices, the ids it
\* lists in the order it lists them, and its answer to GET /devices/<id> for
\* each device id.
Ascending(n) == [k \in 1..n |-> k]
Descending(n) == [k \in 1..n |-> n + 1 - k]

\* The hubs of the driver's life: MaxDevices devices listed in ascending
\* order; every detail request is answered 200, or every one 500, or only
\* the one for device 1 fails.  When the listing request fails nothing else
\* of the hub is consulted.
Nets ==
    [bulk : {R200},
     listing : {Ascending(MaxDevices)},
     detail : {[i \in DeviceIds |-> R200], [i \in DeviceIds |-> R500],
               [i \in DeviceIds |-> IF i = 1 THEN Refused ELSE R200]}]
    \cup [bulk : {R500, Refused},
          listing : {Ascending(MaxDevices)},
          detail : {[i \in DeviceIds |-> Refused]}]

\* The hubs get_all_devices is tried on: up to MaxListed devices, listed in
\* ascending or descending order, every detail request answered on its own.
FetchNets ==
    UNION {[bulk : Responses,
            listing : {Ascending(n), Descending(n)},
            detail : [1..MaxListed -> Responses]] : n \in 0..MaxListed}

----------------------------------------------------------------------------
(* hubitat.py: get_device, get_all_devices, test_connection *)

\* hubitat.py:78-100: the device record on HTTP 200, None on another status
\* or on a transport error.
get_device(resp, body) ==
    IF "status" \in DOMAIN resp
    THEN IF resp.status = 200 THEN body ELSE None
    ELSE None

\* "if full_device:" is false for None and for an empty record.
TruthyDevice(d) == ~IsNone(d) /\ DOMAIN d # {}

\* A faulty variant of DetailOrBasic: a failed fetch leaves the device out.
DetailOrNothing(basic_device, full_device) ==
    IF TruthyDevice(full_device) THEN <<full_device>> ELSE <<>>

\* hubitat.py:63-67: what one listed device adds to full_devices
DetailOrBasic(basic_device, full_device) ==
    IF TruthyDevice(full_device) THEN <<full_device>> ELSE <<basic_device>>

\* hubitat.py:59-67: full_devices after the first n listed devices
RECURSIVE FullDevices(_, _, _)
FullDevices(basic_devices, net, n) ==
    IF n = 0 THEN <<>>
    ELSE LET basic_device == basic_devices[n]
             i == basic_device["id"].num
         IN  FullDevices(basic_devices, net, n - 1)
             \o DetailOrBasic(basic_device, get_device(net.detail[i], FullDevice(i)))

\* The HTTP requests of one enumeration, in the order they are made.
DetailRequests(basic_devices) ==
    [n \in 1..Len(basic_devices) |->
        [path |-> "devices/<id>", device_id |-> DeviceId(basic_devices[n])]]

\* hubitat.py:39-76: the devices returned and the requests made
get_all_devices(net) ==
    LET basic_devices == [n \in 1..Len(net.listing) |-> BasicDevice(net.listing[n])] IN
    IF "status" \in DOMAIN net.bulk /\ net.bulk.status = 200
    THEN [ret |-> Lst(FullDevices(basic_devices, net, Len(basic_devices))),
          requests |-> <<[path |-> "devices", device_id |-> ""]>>
                       \o DetailRequests(basic_devices),
          listed |-> basic_devices]
    ELSE [ret |-> Lst(<<>>),
          requests |-> <<[path |-> "devices", device_id |-> ""]>>,
          listed |-> <<>>]

\* hubitat.py:135-147: "devices is not None"; get_all_devices returns a list
\* on every path and raises nothing, so the except branch is never taken.
test_connection(devices) == ~IsNone(devices)

----------------------------------------------------------------------------
(* driver.py: load_devices *)

\* A faulty variant of LoadOne: every classified device that is neither light
\* nor climate is registered as a switch.
LoadOneLockAsSwitch(registry, device) ==
    LET entity_type == get_entity_type(device)
        entity == IF entity_type = Str("light") THEN create_light_entity(device)
                  ELSE IF entity_type = Str("climate") THEN create_climate_entity(device)
                  ELSE create_switch_entity(device)
    IN  IF IsNone(entity_type) THEN registry
        ELSE IF IsRaise(entity) THEN Raise
        ELSE Put(registry, DeviceId(device), entity)

\* driver.py:209-229, one turn of the loop: the registry after this device,
\* or Raise when building the entity raised.
LoadOne(registry, device) ==
    LET entity_type == get_entity_type(device)
        entity == IF entity_type = Str("light") THEN create_light_entity(device)
                  ELSE IF entity_type = Str("switch") THEN create_switch_entity(device)
                  ELSE create_climate_entity(device)
    IN  IF IsNone(entity_type) THEN registry
        ELSE IF entity_type \notin {Str("light"), Str("switch"), Str("climate")} THEN registry
        ELSE IF IsRaise(entity) THEN Raise
        ELSE Put(registry, DeviceId(device), entity)

\* driver.py:206-234: the registry after the first n devices; an exception
\* ends the loop and keeps what was registered before it.
RECURSIVE LoadLoop(_, _, _)
LoadLoop(registry, devices, n) ==
    IF n = 0 THEN [registry |-> registry, exc |-> FALSE]
    ELSE LET before == LoadLoop(registry, devices, n - 1) IN
         IF before.exc THEN before
         ELSE IF IsRaise(LoadOne(before.registry, devices[n]))
         THEN [before EXCEPT !.exc = TRUE]
         ELSE [before EXCEPT !.registry = LoadOne(before.registry, devices[n])]

NoFetch == [ret |-> Lst(<<>>), requests |-> <<>>, listed |-> <<>>]

\* driver.py:196-234
load_devices(client, registry, net) ==
    IF IsNone(client) THEN [registry |-> registry, fetch |-> NoFetch]
    ELSE LET fetch == get_all_devices(net) IN
         [registry |-> LoadLoop(registry, fetch.ret.list, Len(fetch.ret.list)).registry,
          fetch |-> fetch]

----------------------------------------------------------------------------
(* config.py: ConfigurationManager *)

\* config.json: absent, text that json.load rejects or that is no JSON object
\* (load fails on it either way), or a JSON object.
FileAbsent == [absent |-> TRUE]
FileGarbage == [garbage |-> TRUE]
FileJson(data) == [json |-> data]

HubitatConfig(hub_address, maker_api_id, access_token) ==
    [hub_address |-> hub_address, maker_api_id |-> maker_api_id,
     access_token |-> access_token]

\* config.py:37-59
load(file) ==
    IF "json" \in DOMAIN file
    THEN HubitatConfig(Get(file.json, "hub_address", ""),
                       Get(file.json, "maker_api_id", ""),
                       Get(file.json, "access_token", ""))
    ELSE None

\* What the file system does with a write: it succeeds, creating the
\* directory or opening the file fails (the file is untouched), or the write
\* fails after open() truncated the file.
SaveIO == {"ok", "open_fails", "write_fails"}

\* A faulty variant of save: the access token is not written.
save_without_token(file, config, io) ==
    IF io = "ok"
    THEN [ret |-> TRUE,
          file |-> FileJson([hub_address |-> config.hub_address,
                             maker_api_id |-> config.maker_api_id])]
    ELSE IF io = "open_fails" THEN [ret |-> FALSE, file |-> file]
    ELSE [ret |-> FALSE, file |-> FileGarbage]

\* config.py:61-87: the returned bool and the file afterwards
save(file, config, io) ==
    IF io = "ok"
    THEN [ret |-> TRUE,
          file |-> FileJson([hub_address |-> config.hub_address,
                             maker_api_id |-> config.maker_api_id,
                             access_token |-> config.access_token])]
    ELSE IF io = "open_fails" THEN [ret |-> FALSE, file |-> file]
    ELSE [ret |-> FALSE, file |-> FileGarbage]

ClearIO == {"ok", "unlink_fails"}

\* config.py:89-103
clear(file, io) ==
    IF "absent" \in DOMAIN file THEN [ret |-> TRUE, file |-> file]
    ELSE IF io = "ok" THEN [ret |-> TRUE, file |-> FileAbsent]
    ELSE [ret |-> FALSE, file |-> file]

----------------------------------------------------------------------------
(* driver.py: the setup flow and main *)

\* The process-wide state an operation works on.
Process == [hubitat_client |-> hubitat_client, entities |-> entities,
            config_file |-> config_file]

SETUP_ERROR_OTHER == "SetupError(OTHER)"
SETUP_ERROR_CONNECTION_REFUSED == "SetupError(CONNECTION_REFUSED)"
SETUP_COMPLETE == "SetupComplete"
REQUEST_USER_INPUT == "RequestUserInput"

\* A faulty variant of handle_user_data_response: the result of save() is not looked
\* at, the client is installed and the devices are loaded after a failed save.
handle_user_data_response_unchecked_save(st, input_values, test_bulk, net, io) ==
    LET hub_address == Get(input_values, "hub_address", "")
        maker_api_id == Get(input_values, "maker_api_id", "")
        access_token == Get(input_values, "access_token", "")
        test_fetch == get_all_devices([net EXCEPT !.bulk = test_bulk])
        saved == save(st.config_file, HubitatConfig(hub_address, maker_api_id, access_token), io)
        client == HubitatClient(hub_address, maker_api_id, access_token)
        loaded == load_devices(client, st.entities, net)
    IN  IF hub_address = "" \/ maker_api_id = "" \/ access_token = ""
        THEN [st |-> st, result |-> SETUP_ERROR_OTHER, steps |-> <<"validate">>,
              fetch |-> NoFetch]
        ELSE IF ~test_connection(test_fetch.ret)
        THEN [st |-> st, result |-> SETUP_ERROR_CONNECTION_REFUSED,
              steps |-> <<"validate", "test_connection">>, fetch |-> test_fetch]
        ELSE [st |-> [hubitat_client |-> client, entities |-> loaded.registry,
                      config_file |-> saved.file],
              result |-> IF saved.ret THEN SETUP_COMPLETE ELSE SETUP_ERROR_OTHER,
              steps |-> <<"validate", "test_connection", "save", "install_client",
                          "load_devices">>,
              fetch |-> loaded.fetch]

\* driver.py:345-394.  test_bulk is the hub's answer to the listing request of
\* the connection test, net the hub during load_devices; the per-device
\* answers are those of net in both enumerations.  steps lists what was
\* done, in the order of the code.
handle_user_data_response(st, input_values, test_bulk, net, io) ==
    LET hub_address == Get(input_values, "hub_address", "")
        maker_api_id == Get(input_values, "maker_api_id", "")
        access_token == Get(input_values, "access_token", "")
        test_fetch == get_all_devices([net EXCEPT !.bulk = test_bulk])
        saved == save(st.config_file, HubitatConfig(hub_address, maker_api_id, access_token), io)
        client == HubitatClient(hub_address, maker_api_id, access_token)
        loaded == load_devices(client, st.entities, net)
    IN  IF hub_address = "" \/ maker_api_id = "" \/ access_token = ""
        THEN [st |-> st, result |-> SETUP_ERROR_OTHER, steps |-> <<"validate">>,
              fetch |-> NoFetch]
        ELSE IF ~test_connection(test_fetch.ret)
        THEN [st |-> st, result |-> SETUP_ERROR_CONNECTION_REFUSED,
              steps |-> <<"validate", "test_connection">>, fetch |-> test_fetch]
        ELSE IF ~saved.ret
        THEN [st |-> [st EXCEPT !.config_file = saved.file],
              result |-> SETUP_ERROR_OTHER,
              steps |-> <<"validate", "test_connection", "save">>, fetch |-> test_fetch]
        ELSE [st |-> [hubitat_client |-> client, entities |-> loaded.registry,
                      config_file |-> saved.file],
              result |-> SETUP_COMPLETE,
              steps |-> <<"validate", "test_connection", "save", "install_client",
                          "load_devices">>,
              fetch |-> loaded.fetch]

\* driver.py:291-342.  msg.setup_data is falsy when it is None or empty.
handle_driver_setup(st, msg, clear_io, test_bulk, net, io) ==
    LET cleared == IF msg.reconfigure
                   THEN [st EXCEPT !.config_file = clear(st.config_file, clear_io).file]
                   ELSE st
    IN  IF Truthy(msg.setup_data)
        THEN handle_user_data_response(cleared, msg.setup_data, test_bulk, net, io)
        ELSE [st |-> cleared, result |-> REQUEST_USER_INPUT, steps |-> <<>>,
              fetch |-> NoFetch]

\* driver.py:419-445: the process state after main() loaded the config file
main(st, net) ==
    LET config == load(st.config_file)
        client == HubitatClient(config.hub_address, config.maker_api_id, config.access_token)
        loaded == load_devices(client, st.entities, net)
    IN  IF IsNone(config) THEN [st |-> st, fetch |-> NoFetch]
        ELSE [st |-> [st EXCEPT !.hubitat_client = client, !.entities = loaded.registry],
              fetch |-> loaded.fetch]

----------------------------------------------------------------------------
(* Inputs *)

\* What the setup form can deliver: each field may be missing, "" or filled.
InputValues ==
    {iv \in UNION {[keys -> {"", "hub", "7", "token"}] :
                       keys \in SUBSET {"hub_address", "maker_api_id", "access_token"}} :
        /\ "hub_address" \in DOMAIN iv => iv["hub_address"] \in {"", "hub"}
        /\ "maker_api_id" \in DOMAIN iv => iv["maker_api_id"] = "7"
        /\ "access_token" \in DOMAIN iv => iv["access_token"] \in {"", "token"}}

ValidInput == [hub_address |-> "hub", maker_api_id |-> "7", access_token |-> "token"]

\* The setup_data of a SetupDriver message: none, complete, or lacking a field.
SetupData == {EmptyDict, ValidInput, [hub_address |-> "hub", maker_api_id |-> "7"]}

\* config.json as main() can find it.
InitialFiles ==
    {FileAbsent, FileGarbage, FileJson(ValidInput), FileJson([hub_address |-> "hub"])}

----------------------------------------------------------------------------
(* The driver's life: main, then setup messages *)

NoOp == [op |-> "none"]

Init ==
    /\ pc = "boot"
    /\ hubitat_client = None
    /\ entities = EmptyDict
    /\ config_file \in InitialFiles
    /\ last = NoOp

Install(st) ==
    /\ hubitat_client' = st.hubitat_client
    /\ entities' = st.entities
    /\ config_file' = st.config_file

\* driver.py:448-451: the process starts and runs main().
Main ==
    /\ pc = "boot"
    /\ \E net \in Nets :
          \E r \in {main(Process, net)} :
             /\ Install(r.st)
             /\ last' = [op |-> "main", net |-> net, fetch |-> r.fetch]
    /\ pc' = "running"

AllPresent(input_values) ==
    /\ Get(input_values, "hub_address", "") # ""
    /\ Get(input_values, "maker_api_id", "") # ""
    /\ Get(input_values, "access_token", "") # ""

\* The hub and the file system are consulted only when the three fields are
\* there.
EnvResponses(input_values) == IF AllPresent(input_values) THEN Responses ELSE {R200}
EnvNets(input_values) == IF AllPresent(input_values) THEN Nets ELSE {CHOOSE n \in Nets : TRUE}
EnvSaveIO(input_values) == IF AllPresent(input_values) THEN SaveIO ELSE {"ok"}

\* The host delivers a UserDataResponse (driver.py:409-410).
UserDataResponse ==
    /\ pc = "running"
    /\ \E input_values \in InputValues :
          \E test_bulk \in EnvResponses(input_values),
             net \in EnvNets(input_values), io \in EnvSaveIO(input_values) :
             \E r \in {handle_user_data_response(Process, input_values, test_bulk, net, io)} :
                /\ Install(r.st)
                /\ last' = [op |-> "user_data_response", input_values |-> input_values,
                            test_bulk |-> test_bulk, net |-> net, io |-> io,
                            result |-> r.result, steps |-> r.steps, fetch |-> r.fetch]
    /\ pc' = pc

\* The host delivers a SetupDriver message (driver.py:407-408).
DriverSetup ==
    /\ pc = "running"
    /\ \E reconfigure \in BOOLEAN, setup_data \in SetupData :
          \E clear_io \in IF reconfigure THEN ClearIO ELSE {"ok"},
             test_bulk \in EnvResponses(setup_data),
             net \in EnvNets(setup_data), io \in EnvSaveIO(setup_data) :
             \E r \in {handle_driver_setup(Process,
                                           [reconfigure |-> reconfigure,
                                            setup_data |-> setup_data],
                                           clear_io, test_bulk, net, io)} :
                /\ Install(r.st)
                /\ last' = [op |-> "driver_setup", reconfigure |-> reconfigure,
                            clear_io |-> clear_io,
                            input_values |-> setup_data,
                            test_bulk |-> test_bulk, net |-> net, io |-> io,
                            result |-> r.result, steps |-> r.steps, fetch |-> r.fetch]
    /\ pc' = pc

\* The host delivers AbortDriverSetup or a message of another type
\* (driver.py:411-416): SetupError() and nothing else.
AbortSetup ==
    /\ pc = "running"
    /\ last' = [op |-> "abort", result |-> "SetupError()"]
    /\ UNCHANGED <<pc, hubitat_client, entities, config_file>>

Next ==
    \/ Main
    \/ UserDataResponse
    \/ DriverSetup
    \/ AbortSetup

Spec == Init /\ [][Next]_vars

----------------------------------------------------------------------------
(* Command handling: device_command_handler on one entity *)

\* The hub's answers to the requests of one handler call, in order: the same
\* answer to all of them, or a mix.
HubAnswers ==
    {<<r, r, r, r>> : r \in Responses} \cup {<<R500, R200, Refused, R200>>}

CommandIds ==
    {CMD_ON, CMD_OFF, CMD_TOGGLE, CMD_HVAC_MODE, CMD_TARGET_TEMPERATURE,
     CMD_TARGET_TEMPERATURE_HEAT, CMD_TARGET_TEMPERATURE_COOL, CMD_UNKNOWN}

\* Parameters of a light's turn-on: any of the four keys, each with one value.
LightOnValues ==
    [brightness |-> Num(128), hue |-> Num(120), saturation |-> Num(80),
     color_temperature |-> Num(3000)]

LightOnParams ==
    {[k \in keys |-> LightOnValues[k]] : keys \in SUBSET DOMAIN LightOnValues}

HvacModeParams ==
    {EmptyDict} \cup {[k \in {"hvac_mode"} |-> Str(m)] :
                          m \in {"off", "heat", "cool", "auto", "dry"}}

\* A temperature as a number, as numeric text, or as text float() rejects.
TemperatureParams ==
    {EmptyDict} \cup {[k \in {"temperature"} |-> t] : t \in {Num(21), Str("21"), Str("abc")}}

\* The parameters tried with a command id on an entity: those the handler
\* reads for that command, none otherwise.
ParamsOf(entity, cmd_id) ==
    IF entity.kind = "light" /\ cmd_id = CMD_ON THEN LightOnParams
    ELSE IF entity.kind = "switch" /\ cmd_id = CMD_ON
    THEN {EmptyDict, [k \in {"brightness"} |-> Num(128)]}
    ELSE IF entity.kind = "climate" /\ cmd_id = CMD_HVAC_MODE THEN HvacModeParams
    ELSE IF entity.kind = "climate"
            /\ cmd_id \in {CMD_TARGET_TEMPERATURE, CMD_TARGET_TEMPERATURE_HEAT,
                           CMD_TARGET_TEMPERATURE_COOL}
    THEN TemperatureParams
    ELSE {EmptyDict}

\* An entity of a class the handler has no branch for (a ucapi sensor).
Sensor ==
    [id |-> "sensor", kind |-> "other", features |-> <<>>,
     attributes |-> [k \in {"state"} |-> "ON"]]

\* Entities a caller of the handler holds without their being registered: the
\* light the mapper builds for a dimmer, and a sensor.
DetachedEntities == {create_light_entity(Dimmer(1)), Sensor}

TheClient == HubitatClient("hub", "7", "token")

\* The driver after main() found no config file (no client, nothing
\* registered), or after a setup that registered one entity.
InitCmd ==
    /\ pc = "running"
    /\ last = NoOp
    /\ \/ /\ hubitat_client = None
          /\ entities = EmptyDict
          /\ config_file = FileAbsent
       \/ /\ hubitat_client = TheClient
          /\ config_file = FileJson(ValidInput)
          /\ \E device \in {Dimmer(1), Outlet(2), Thermostat(3)} :
                entities = LoadOne(EmptyDict, device)

\* The hub command names of the requests a handler call sent, in order.
CommandsOf(sent) == [i \in 1..Len(sent) |-> sent[i].command]

\* When a toggle for a registered entity directly follows a toggle for the
\* same entity: the cached state the earlier toggle found and the commands it
\* sent.  None for every other call.
PrecedingToggle(registered, entity, cmd_id) ==
    IF /\ registered
       /\ cmd_id = CMD_TOGGLE
       /\ last.op = "command"
       /\ last.registered
       /\ last.cmd_id = CMD_TOGGLE
       /\ last.entity.id = entity.id
    THEN [state |-> Get(last.entity.attributes, "state", "OFF"),
          commands |-> CommandsOf(last.sent)]
    ELSE None

\* The hub commands that switch a device on or off or set its mode.
StateCommands == {"on", "off", "heat", "cool", "auto"}

\* The last on/off/mode command among the requests sent, or the given one
\* when there is none.
LastStateCommand(sent, earlier) ==
    LET at == {i \in 1..Len(sent) : sent[i].command \in StateCommands} IN
    IF at = {} THEN earlier
    ELSE Str(sent[CHOOSE i \in at : \A j \in at : j <= i].command)

\* The last on/off/mode command the hub was sent for the registered entity
\* by the calls handled so far, None when there was none yet.
StateCommandSoFar(registered, sent) ==
    LET earlier == IF last.op = "command" THEN last.state_command ELSE None IN
    IF registered THEN LastStateCommand(sent, earlier) ELSE earlier

\* What a handler call leaves in "last": the entity as it was handed in, the
\* call's arguments, and what the call returned, assigned and sent.
CallRecord(registered, entity, cmd_id, params, r) ==
    [op |-> "command", registered |-> registered, entity |-> entity,
     cmd_id |-> cmd_id, params |-> params,
     status |-> r.status, attributes |-> r.attributes, sent |-> r.sent,
     prev |-> PrecedingToggle(registered, entity, cmd_id),
     state_command |-> StateCommandSoFar(registered, r.sent)]

\* The host delivers a command for a registered entity; the handler mutates
\* the registered entity's attribute dict.
HandleCommand ==
    /\ \E id \in DOMAIN entities, cmd_id \in CommandIds, hub \in HubAnswers :
          \E params \in ParamsOf(entities[id], cmd_id) :
             \E r \in {device_command_handler(hubitat_client, entities[id], cmd_id,
                                              params, hub)} :
                /\ entities' = [entities EXCEPT ![id].attributes = r.attributes]
                /\ last' = CallRecord(TRUE, entities[id], cmd_id, params, r)
    /\ UNCHANGED <<pc, hubitat_client, config_file>>

\* The handler is called with an entity the caller holds.
DirectCall ==
    /\ \E entity \in DetachedEntities, cmd_id \in CommandIds, hub \in HubAnswers :
          \E params \in ParamsOf(entity, cmd_id) :
             \E r \in {device_command_handler(hubitat_client, entity, cmd_id,
                                              params, hub)} :
                last' = CallRecord(FALSE, entity, cmd_id, params, r)
    /\ UNCHANGED <<pc, hubitat_client, entities, config_file>>

NextCmd ==
    \/ HandleCommand
    \/ DirectCall

SpecCmd == InitCmd /\ [][NextCmd]_vars

----------------------------------------------------------------------------
(* Classification: get_entity_type on a device *)

\* Elements of a capability list: names as bare strings and as objects, an
\* object without a name, and a name in another case.
CapVocabulary ==
    {Str("Thermostat"), Str("Light"), Str("ColorControl"), Str("Switch"),
     Str("SwitchLevel"), Str("Lock"), Str("thermostat"),
     [name |-> "Switch"], [name |-> "Thermostat"], [label |-> "Light"]}

CapLists == UNION {[1..n -> CapVocabulary] : n \in 0..MaxCaps}

ClassifyInputs ==
    {[id |-> Num(1), capabilities |-> Lst(q)] : q \in CapLists}
    \cup {[id |-> Num(1)], [id |-> Num(1), capabilities |-> Str("Thermostat")]}

InitClassify ==
    /\ pc = "running"
    /\ hubitat_client = None
    /\ entities = EmptyDict
    /\ config_file = FileAbsent
    /\ \E device \in ClassifyInputs : last = [op |-> "device", device |-> device]

\* get_entity_type is called on the device, and load_devices takes the device
\* through one turn of its loop, starting from an empty registry.
Classify ==
    /\ last.op = "device"
    /\ last' = [op |-> "get_entity_type", device |-> last.device,
                ret |-> get_entity_type(last.device),
                registry |-> LoadOne(EmptyDict, last.device)]
    /\ UNCHANGED <<pc, hubitat_client, entities, config_file>>

NextClassify == Classify

SpecClassify == InitClassify /\ [][NextClassify]_vars

----------------------------------------------------------------------------
(* Enumeration: get_all_devices on a hub *)

InitFetch ==
    /\ pc = "running"
    /\ hubitat_client = TheClient
    /\ entities = EmptyDict
    /\ config_file = FileJson(ValidInput)
    /\ \E net \in FetchNets : last = [op |-> "net", net |-> net]

Fetch ==
    /\ last.op = "net"
    /\ last' = [op |-> "get_all_devices", net |-> last.net,
                fetch |-> get_all_devices(last.net)]
    /\ UNCHANGED <<pc, hubitat_client, entities, config_file>>

NextFetch == Fetch

SpecFetch == InitFetch /\ [][NextFetch]_vars

----------------------------------------------------------------------------
(* Properties of the command handler, checked under SpecCmd *)

\* The handler's processing raises: the one statement of the try block that
\* can, float(temp), is reached with a temperature float() rejects.
ConversionFails(call) ==
    /\ call.entity.kind = "climate"
    /\ call.cmd_id \in {CMD_TARGET_TEMPERATURE, CMD_TARGET_TEMPERATURE_HEAT,
                        CMD_TARGET_TEMPERATURE_COOL}
    /\ "temperature" \in DOMAIN call.params
    /\ IsRaise(Float(call.params["temperature"]))

\* C1: every call of device_command_handler returns one of three statuses:
\* SERVICE_UNAVAILABLE exactly when no hub client is configured, and then no
\* hub command is sent and no attribute of the entity changes; with a client,
\* SERVER_ERROR exactly when processing raised, and OK otherwise.
C1_StatusContract ==
    last.op = "command" =>
        /\ last.status \in {"SERVICE_UNAVAILABLE", "SERVER_ERROR", "OK"}
        /\ (last.status = "SERVICE_UNAVAILABLE") <=> IsNone(hubitat_client)
        /\ IsNone(hubitat_client) =>
              /\ last.sent = <<>>
              /\ last.attributes = last.entity.attributes
        /\ ~IsNone(hubitat_client) =>
              /\ (last.status = "SERVER_ERROR") <=> ConversionFails(last)
              /\ (last.status = "OK") <=> ~ConversionFails(last)

\* A turn-on with parameters for a light reached the handler while no client
\* was configured.
C1_Witness ==
    /\ last.op = "command"
    /\ IsNone(hubitat_client)
    /\ last.entity.kind = "light"
    /\ last.cmd_id = CMD_ON
    /\ "brightness" \in DOMAIN last.params
    /\ last.status = "SERVICE_UNAVAILABLE"

----------------------------------------------------------------------------
(* Properties of classification, checked under SpecClassify *)

\* The capability names a device lists, as a set.
CapabilitySet(device) ==
    {CapList(device)[i] : i \in 1..Len(CapList(device))}

\* C2: get_entity_type is first-match-wins over the capability set: climate
\* whenever Thermostat is present, whatever else is; otherwise light whenever
\* Light or ColorControl is present or both Switch and SwitchLevel are;
\* otherwise switch whenever Switch is present; and none of the three
\* otherwise.  Switch with SwitchLevel and no Thermostat is light.
C2_FirstMatchWins ==
    last.op = "get_entity_type" =>
        LET caps == CapabilitySet(last.device) IN
        IF "Thermostat" \in caps THEN last.ret = Str("climate")
        ELSE IF \/ "Light" \in caps
                \/ "ColorControl" \in caps
                \/ ("Switch" \in caps /\ "SwitchLevel" \in caps)
        THEN last.ret = Str("light")
        ELSE IF "Switch" \in caps THEN last.ret = Str("switch")
        ELSE last.ret \notin {Str("climate"), Str("light"), Str("switch")}

\* A device listing Switch (as an object) and SwitchLevel, neither Light nor
\* ColorControl nor Thermostat, was classified as a light.
C2_Witness ==
    /\ last.op = "get_entity_type"
    /\ CapabilitySet(last.device) = {"Switch", "SwitchLevel"}
    /\ \E i \in 1..Len(last.device["capabilities"].list) :
          last.device["capabilities"].list[i] = [name |-> "Switch"]
    /\ last.ret = Str("light")

----------------------------------------------------------------------------
(* Properties of the command handler, continued *)

\* The last call was a toggle of a light or switch with a client configured.
IsToggle(call) ==
    /\ call.op = "command"
    /\ ~IsNone(hubitat_client)
    /\ call.entity.kind \in {"light", "switch"}
    /\ call.cmd_id = CMD_TOGGLE

\* C3: each toggle of a switch or light sends exactly one hub command for the
\* device, the opposite of the cached state (off when ON, on otherwise), and
\* flips the cached state; two toggles handled one after the other on an
\* entity whose cached state is OFF send on, then off, and leave the cached
\* state OFF.
C3_ToggleTwice ==
    IsToggle(last) =>
        LET was == Get(last.entity.attributes, "state", "OFF") IN
        /\ Len(last.sent) = 1
        /\ last.sent[1].device_id = last.entity.id
        /\ last.sent[1].command = (IF was = "ON" THEN "off" ELSE "on")
        /\ last.attributes["state"] = (IF was = "ON" THEN "OFF" ELSE "ON")
        /\ last.registered => entities[last.entity.id].attributes["state"]
                                 = last.attributes["state"]
        /\ (~IsNone(last.prev) /\ last.prev.state = "OFF") =>
              /\ last.prev.commands = <<"on">>
              /\ CommandsOf(last.sent) = <<"off">>
              /\ last.attributes["state"] = "OFF"
              /\ entities[last.entity.id].attributes["state"] = "OFF"

\* A registered switch whose cached state was OFF has been toggled twice in a
\* row, the hub refusing the second request.
C3_Witness ==
    /\ IsToggle(last)
    /\ last.entity.kind = "switch"
    /\ ~IsNone(last.prev)
    /\ last.prev.state = "OFF"
    /\ last.sent[1].resp = Refused

\* The attribute values one hub command of a call stands for: what the cache
\* must hold after the call, given the command sent and the call it was sent
\* for.
Commanded(call, req, attributes) ==
    LET p == req.parameters IN
    CASE req.command = "on" -> attributes["state"] = "ON"
      [] req.command = "off" -> attributes["state"] = "OFF"
      [] req.command = "heat" -> attributes["state"] = "HEAT"
      [] req.command = "cool" -> attributes["state"] = "COOL"
      [] req.command = "auto" -> attributes["state"] = "AUTO"
      [] req.command = "setLevel" -> attributes["brightness"] = p[1]
      [] req.command = "setColor" ->
            /\ attributes["hue"] = p[1].hue
            /\ attributes["saturation"] = p[1].saturation
      [] req.command = "setColorTemperature" ->
            attributes["color_temperature"] = p[1]
      [] req.command = "setHeatingSetpoint" ->
            /\ attributes["target_temperature"] = Float(p[1])
            /\ (\/ call.cmd_id = CMD_TARGET_TEMPERATURE_HEAT
                \/ Get(call.entity.attributes, "state", "HEAT") = "HEAT")
                  => attributes["target_temperature_heat"] = Float(p[1])
      [] req.command = "setCoolingSetpoint" ->
            /\ attributes["target_temperature"] = Float(p[1])
            /\ attributes["target_temperature_cool"] = Float(p[1])
      [] OTHER -> FALSE

\* C4: when a hub command of a call fails (the hub answers non-200 or cannot
\* be reached, so send_command returns false) and no conversion raises, the
\* handler still returns OK and the cached attributes hold every commanded
\* value: nothing is read back and nothing is rolled back.
C4_OptimisticPatch ==
    (/\ last.op = "command"
     /\ ~IsNone(hubitat_client)
     /\ ~ConversionFails(last)
     /\ \E i \in 1..Len(last.sent) : ~last.sent[i].ret) =>
        /\ last.status = "OK"
        /\ \A i \in 1..Len(last.sent) :
              /\ last.sent[i].device_id = last.entity.id
              /\ Commanded(last, last.sent[i], last.attributes)
        /\ last.registered =>
              entities[last.entity.id].attributes = last.attributes

\* A registered thermostat was given a target temperature as numeric text
\* while the hub could not be reached.
C4_Witness ==
    /\ last.op = "command"
    /\ last.registered
    /\ last.entity.kind = "climate"
    /\ last.cmd_id = CMD_TARGET_TEMPERATURE
    /\ last.params = [k \in {"temperature"} |-> Str("21")]
    /\ Len(last.sent) = 1
    /\ last.sent[1].resp = Refused
    /\ last.status = "OK"
    /\ entities[last.entity.id].attributes["target_temperature"] = Num(21)

\* C5: a target-temperature command with a numeric temperature t on a climate
\* entity whose cached state is COOL sends exactly one hub command,
\* setCoolingSetpoint with t, for the entity's device; sets
\* target_temperature_cool and target_temperature to t; and leaves
\* target_temperature_heat, the cached state and every other attribute as they
\* were.
C5_TargetTemperatureInCool ==
    (/\ last.op = "command"
     /\ ~IsNone(hubitat_client)
     /\ last.entity.kind = "climate"
     /\ last.cmd_id = CMD_TARGET_TEMPERATURE
     /\ Get(last.entity.attributes, "state", "HEAT") = "COOL"
     /\ "temperature" \in DOMAIN last.params
     /\ IsNum(last.params["temperature"])) =>
        LET t == last.params["temperature"]
            before == last.entity.attributes
            after == IF last.registered
                     THEN entities[last.entity.id].attributes
                     ELSE last.attributes
        IN  /\ Len(last.sent) = 1
            /\ last.sent[1].device_id = last.entity.id
            /\ last.sent[1].command = "setCoolingSetpoint"
            /\ last.sent[1].parameters = <<t>>
            /\ after = last.attributes
            /\ after["target_temperature_cool"] = t
            /\ after["target_temperature"] = t
            /\ after["state"] = "COOL"
            /\ ("target_temperature_heat" \in DOMAIN after)
                  <=> ("target_temperature_heat" \in DOMAIN before)
            /\ DOMAIN after = DOMAIN before \cup {"target_temperature_cool",
                                                  "target_temperature"}
            /\ \A k \in DOMAIN before \ {"target_temperature_cool",
                                         "target_temperature"} :
                  after[k] = before[k]
            /\ last.status = "OK"

\* A registered thermostat in COOL whose heating setpoint is 20 was given the
\* target temperature 21 while the hub answered 500.
C5_Witness ==
    /\ last.op = "command"
    /\ last.registered
    /\ last.entity.kind = "climate"
    /\ last.cmd_id = CMD_TARGET_TEMPERATURE
    /\ last.entity.attributes["state"] = "COOL"
    /\ last.entity.attributes["target_temperature_heat"] = Num(20)
    /\ last.params = [k \in {"temperature"} |-> Num(21)]
    /\ last.sent[1].resp = R500
    /\ entities[last.entity.id].attributes["target_temperature_cool"] = Num(21)

\* The command ids the handler has a branch for, by entity class.
Recognized(kind, cmd_id) ==
    \/ kind \in {"light", "switch"} /\ cmd_id \in {CMD_ON, CMD_OFF, CMD_TOGGLE}
    \/ kind = "climate" /\ cmd_id \in {CMD_ON, CMD_OFF, CMD_HVAC_MODE,
                                      CMD_TARGET_TEMPERATURE,
                                      CMD_TARGET_TEMPERATURE_HEAT,
                                      CMD_TARGET_TEMPERATURE_COOL}

\* C6: with a client configured, a command id the handler does not recognize
\* for the entity's class, or an entity that is no light, switch or climate
\* entity, gets OK: no hub command is sent and every attribute of the entity
\* stays as it was.
C6_UnknownIgnored ==
    (/\ last.op = "command"
     /\ ~IsNone(hubitat_client)
     /\ ~Recognized(last.entity.kind, last.cmd_id)) =>
        /\ last.status = "OK"
        /\ last.sent = <<>>
        /\ last.attributes = last.entity.attributes
        /\ last.registered =>
              entities[last.entity.id].attributes = last.entity.attributes

\* A registered light was sent the climate command hvac_mode.
C6_Witness ==
    /\ last.op = "command"
    /\ ~IsNone(hubitat_client)
    /\ last.registered
    /\ last.entity.kind = "light"
    /\ last.cmd_id = CMD_HVAC_MODE
    /\ last.status = "OK"

\* C7: send_command returns true exactly when the hub answers the request
\* with HTTP 200; for any other status and for a transport failure it returns
\* false, and the failure does not surface in the caller's status.
C7_SendCommand ==
    last.op = "command" =>
        /\ \A i \in 1..Len(last.sent) :
              last.sent[i].ret <=> (/\ "status" \in DOMAIN last.sent[i].resp
                                    /\ last.sent[i].resp.status = 200)
        /\ (Len(last.sent) > 0 /\ ~ConversionFails(last)) => last.status = "OK"

\* One handler call made four requests: the hub answered 500 to one, could
\* not be reached for another, and answered 200 to the rest.
C7_Witness ==
    /\ last.op = "command"
    /\ Len(last.sent) = 4
    /\ \E i, j, k \in 1..4 :
          /\ last.sent[i].resp = R500 /\ ~last.sent[i].ret
          /\ last.sent[j].resp = Refused /\ ~last.sent[j].ret
          /\ last.sent[k].resp = R200 /\ last.sent[k].ret

----------------------------------------------------------------------------
(* Properties of enumeration, checked under SpecFetch *)

\* The hub answered the request with HTTP 200.
Answered200(resp) == "status" \in DOMAIN resp /\ resp.status = 200

\* C8: get_all_devices always returns a list.  When the listing request fails
\* (another status, or a transport error) the list is empty and the listing
\* request is the only request made.  When it succeeds with n entries, n
\* detail requests follow it, one per entry in listing order, and the list
\* has n records in that order: the detail record where that fetch got HTTP
\* 200, the listing's own entry where it did not.
C8_FailSoftInOrder ==
    last.op = "get_all_devices" =>
        LET net == last.net
            n == Len(net.listing)
            ret == last.fetch.ret
            requests == last.fetch.requests
        IN  /\ IsList(ret)
            /\ requests[1] = [path |-> "devices", device_id |-> ""]
            /\ ~Answered200(net.bulk) =>
                  /\ ret.list = <<>>
                  /\ Len(requests) = 1
            /\ Answered200(net.bulk) =>
                  /\ Len(requests) = n + 1
                  /\ Len(ret.list) = n
                  /\ \A k \in 1..n :
                        /\ requests[k + 1] = [path |-> "devices/<id>",
                                              device_id |-> ToString(net.listing[k])]
                        /\ ret.list[k] =
                              IF Answered200(net.detail[net.listing[k]])
                              THEN FullDevice(net.listing[k])
                              ELSE BasicDevice(net.listing[k])

\* The hub listed three devices in descending order; the detail request got
\* 200 for one of them, 500 for another, and no connection for the third.
C8_Witness ==
    /\ last.op = "get_all_devices"
    /\ Answered200(last.net.bulk)
    /\ last.net.listing = Descending(3)
    /\ {last.net.detail[i] : i \in 1..3} = Responses
    /\ Len(last.fetch.ret.list) = 3
    /\ last.fetch.ret.list[1]["id"] = Num(3)

----------------------------------------------------------------------------
(* Properties of the setup flow, checked under Spec *)

\* The step just taken handled a UserDataResponse, or a SetupDriver message
\* carrying setup data, whose three fields are all non-empty.
CompleteInput(call) ==
    /\ call.op \in {"user_data_response", "driver_setup"}
    /\ Truthy(call.input_values)
    /\ AllPresent(call.input_values)

\* C9: when the three fields are non-empty and the hub cannot be reached for
\* the connection test (its device-listing request fails),
\* handle_user_data_response returns SetupError(CONNECTION_REFUSED), the
\* config file stays as it was and no client is installed.
C9_ConnectionRefused ==
    [][(/\ last'.op = "user_data_response"
        /\ CompleteInput(last')
        /\ ~Answered200(last'.test_bulk)) =>
           /\ last'.result = SETUP_ERROR_CONNECTION_REFUSED
           /\ config_file' = config_file
           /\ hubitat_client' = hubitat_client]_vars

\* The state the code reaches instead: the listing request of the connection
\* test was refused, the hub stayed unreachable, and setup completed with the
\* config written and a client installed.
C9_Witness ==
    /\ last.op = "user_data_response"
    /\ last.input_values = ValidInput
    /\ last.test_bulk = Refused
    /\ last.net.bulk = Refused
    /\ last.result = SETUP_COMPLETE
    /\ config_file = FileJson(ValidInput)
    /\ hubitat_client = HubitatClient("hub", "7", "token")

\* The steps of a setup in the order the code takes them.
SetupOrder ==
    <<"validate", "test_connection", "save", "install_client", "load_devices">>

\* C10: a setup takes its steps in the order validate, test the connection,
\* save, install the client, load devices, each only after the one before
\* succeeded.  A failed validation returns SetupError(OTHER) and touches
\* neither hub, file, client nor registry; a failed save returns
\* SetupError(OTHER) and leaves client and registry as they were.  The file
\* is written only after the connection test, the client is replaced only
\* after save returned true, and SetupComplete is returned exactly when all
\* five steps were taken.
C10_SetupOrder ==
    [][(/\ last'.op \in {"user_data_response", "driver_setup"}
        /\ Truthy(last'.input_values)) =>
          LET call == last'
              n == Len(call.steps)
              file == IF call.op = "driver_setup" /\ call.reconfigure
                      THEN clear(config_file, call.clear_io).file
                      ELSE config_file
          IN  /\ n >= 1
              /\ call.steps = SubSeq(SetupOrder, 1, n)
              /\ ~AllPresent(call.input_values) =>
                    /\ call.result = SETUP_ERROR_OTHER
                    /\ n = 1
                    /\ call.fetch = NoFetch
              /\ (AllPresent(call.input_values) /\ call.io # "ok") =>
                    /\ call.result = SETUP_ERROR_OTHER
                    /\ n = 3
              /\ n < 3 => config_file' = file
              /\ n < 4 => /\ hubitat_client' = hubitat_client
                          /\ entities' = entities
              /\ config_file' # file => (n >= 3 /\ AllPresent(call.input_values))
              /\ hubitat_client' # hubitat_client => (n = 5 /\ call.io = "ok")
              /\ (call.result = SETUP_COMPLETE) <=> (n = 5)
              /\ n = 5 => /\ config_file' = FileJson(call.input_values)
                          /\ hubitat_client' = HubitatClient(call.input_values["hub_address"],
                                                             call.input_values["maker_api_id"],
                                                             call.input_values["access_token"])]_vars

\* A complete UserDataResponse reached a driver that already had a client and
\* a config; the write of the config file failed after the connection test,
\* and the client is still the installed one.
C10_Witness ==
    /\ last.op = "user_data_response"
    /\ AllPresent(last.input_values)
    /\ last.io = "write_fails"
    /\ last.result = SETUP_ERROR_OTHER
    /\ last.steps = <<"validate", "test_connection", "save">>
    /\ config_file = FileGarbage
    /\ ~IsNone(hubitat_client)

\* C11: in every reachable state a live hub client exists only if its hub
\* address, Maker API app id and access token are all non-empty, whether
\* setup installed it or main() built it from the persisted config file.
C11_ClientFieldsNonEmpty ==
    ~IsNone(hubitat_client) =>
        /\ hubitat_client.hub_address # ""
        /\ hubitat_client.app_id # ""
        /\ hubitat_client.access_token # ""

\* The state the code reaches instead: main() found a config file holding
\* only hub_address and installed a client whose app id and access token are
\* empty.
C11_Witness ==
    /\ last.op = "main"
    /\ config_file = FileJson([hub_address |-> "hub"])
    /\ ~IsNone(hubitat_client)
    /\ hubitat_client.hub_address = "hub"
    /\ hubitat_client.app_id = ""
    /\ hubitat_client.access_token = ""

----------------------------------------------------------------------------
(* The config store: ConfigurationManager.save, load and clear on one file *)

\* The configs handed to save(): each field empty or filled.
Configs ==
    {HubitatConfig(a, m, t) : a \in {"", "hub"}, m \in {"", "7"}, t \in {"", "token"}}

InitConfig ==
    /\ pc = "running"
    /\ hubitat_client = None
    /\ entities = EmptyDict
    /\ config_file \in InitialFiles
    /\ last = [op |-> "start", cleared |-> FALSE]

\* save(config) is called; "cleared" tells whether clear() has returned true
\* since the last save() that returned true.
Save ==
    /\ \E config \in Configs, io \in SaveIO :
          \E r \in {save(config_file, config, io)} :
             /\ config_file' = r.file
             /\ last' = [op |-> "save", config |-> config, io |-> io, ret |-> r.ret,
                         cleared |-> IF r.ret THEN FALSE ELSE last.cleared]
    /\ UNCHANGED <<pc, hubitat_client, entities>>

\* load() is called; "after" is the call it directly follows.
Load ==
    /\ last' = [op |-> "load", ret |-> load(config_file), cleared |-> last.cleared,
                after |-> IF last.op = "save"
                          THEN [op |-> "save", config |-> last.config, ret |-> last.ret]
                          ELSE [op |-> last.op]]
    /\ UNCHANGED <<pc, hubitat_client, entities, config_file>>

\* clear() is called.
Clear ==
    /\ \E io \in ClearIO :
          \E r \in {clear(config_file, io)} :
             /\ config_file' = r.file
             /\ last' = [op |-> "clear", io |-> io, ret |-> r.ret,
                         existed |-> "absent" \notin DOMAIN config_file,
                         cleared |-> r.ret \/ last.cleared]
    /\ UNCHANGED <<pc, hubitat_client, entities>>

NextConfig ==
    \/ Save
    \/ Load
    \/ Clear

SpecConfig == InitConfig /\ [][NextConfig]_vars

\* C12: a load() that directly follows a save(c) that returned true returns a
\* config equal to c in hub_address, maker_api_id and access_token; clear()
\* returns true whether or not the file existed, unless removing it fails;
\* and once clear() has returned true every load() returns None until a
\* save() returns true.
C12_RoundTrip ==
    /\ (last.op = "load" /\ last.after.op = "save" /\ last.after.ret) =>
          /\ ~IsNone(last.ret)
          /\ last.ret.hub_address = last.after.config.hub_address
          /\ last.ret.maker_api_id = last.after.config.maker_api_id
          /\ last.ret.access_token = last.after.config.access_token
    /\ (last.op = "clear" /\ (last.io = "ok" \/ ~last.existed)) => last.ret
    /\ (last.op = "clear" /\ last.ret) => "absent" \in DOMAIN config_file
    /\ (last.op = "load" /\ last.cleared) => IsNone(last.ret)

\* A config with an empty access token was saved and read back at once.
C12_Witness ==
    /\ last.op = "load"
    /\ last.after.op = "save"
    /\ last.after.ret
    /\ last.after.config = HubitatConfig("hub", "7", "")
    /\ last.ret = HubitatConfig("hub", "7", "")

----------------------------------------------------------------------------
(* Properties of classification and loading, checked under SpecClassify *)

\* The device lists Lock and none of Thermostat, Light, ColorControl, Switch.
LockOnly(device) ==
    /\ "Lock" \in CapabilitySet(device)
    /\ CapabilitySet(device) \cap {"Thermostat", "Light", "ColorControl", "Switch"} = {}

\* The device lists no capability get_entity_type tests for on its own.
NothingRecognized(device) ==
    CapabilitySet(device)
        \cap {"Thermostat", "Light", "ColorControl", "Switch", "Lock"} = {}

\* C13 as the spec states it: a device with Lock and none of Thermostat,
\* Light, ColorControl, Switch is classified like a device with no recognized
\* capability, for which get_entity_type returns None, and loading creates no
\* entity for it.
C13_LockUnsupported ==
    (last.op = "get_entity_type" /\ (LockOnly(last.device) \/ NothingRecognized(last.device))) =>
        /\ IsNone(last.ret)
        /\ last.registry = EmptyDict

\* C13, amended: for a device with Lock and none of Thermostat, Light,
\* ColorControl, Switch get_entity_type returns "lock", not the None it
\* returns for a device with no recognized capability; device loading creates
\* no entity for either.
C13_LockNotExposed ==
    last.op = "get_entity_type" =>
        /\ LockOnly(last.device) =>
              /\ last.ret = Str("lock")
              /\ last.registry = EmptyDict
        /\ NothingRecognized(last.device) =>
              /\ IsNone(last.ret)
              /\ last.registry = EmptyDict

\* A device listing Lock and SwitchLevel went through classification and one
\* turn of the loading loop.
C13_Witness ==
    /\ last.op = "get_entity_type"
    /\ CapabilitySet(last.device) = {"Lock", "SwitchLevel"}
    /\ last.ret = Str("lock")
    /\ last.registry = EmptyDict

----------------------------------------------------------------------------
(* Entity construction: create_climate_entity on a thermostat record *)

\* An attribute the device record does not list.
Missing == [missing |-> TRUE]

\* Values of supportedThermostatModes: JSON text of a list, text that is not
\* JSON, JSON text of a number, of null and of a string, a null value, a
\* number, and decoded lists.
ModesValues ==
    {Str("[\"heat\",\"cool\"]"), Str("[\"heat\"]"), Str("[]"), Str("heat,cool"),
     Str("5"), Str("null"), Str("\"heat\""), None, Num(5),
     Lst(<<Str("heat"), Str("cool")>>), Lst(<<Str("cool")>>), Lst(<<>>)}

\* Values of heatingSetpoint and coolingSetpoint: a number, numeric text, null.
SetpointValues == {None, Num(21), Str("21")}

\* One element of the hub's attribute list, none for a missing attribute.
Entry(name, v) ==
    IF v = Missing THEN <<>> ELSE <<[name |-> name, currentValue |-> v]>>

ClimateInputs ==
    {[id |-> Num(3),
      capabilities |-> Lst(<<Str("Thermostat")>>),
      attributes |-> Lst(Entry("thermostatMode", Str(mode))
                         \o Entry("supportedThermostatModes", m)
                         \o Entry("heatingSetpoint", h)
                         \o Entry("coolingSetpoint", c))] :
        mode \in {"heat", "off"},
        m \in ModesValues \cup {Missing},
        h \in SetpointValues \cup {Missing},
        c \in SetpointValues \cup {Missing}}

InitClimate ==
    /\ pc = "running"
    /\ hubitat_client = TheClient
    /\ entities = EmptyDict
    /\ config_file = FileJson(ValidInput)
    /\ \E device \in ClimateInputs : last = [op |-> "device", device |-> device]

\* create_climate_entity is called on the device: ret is the entity, or Raise.
CreateClimate ==
    /\ last.op = "device"
    /\ last' = [op |-> "create_climate_entity", device |-> last.device,
                attributes |-> normalize_attributes(last.device["attributes"]),
                ret |-> create_climate_entity(last.device)]
    /\ UNCHANGED <<pc, hubitat_client, entities, config_file>>

NextClimate == CreateClimate

SpecClimate == InitClimate /\ [][NextClimate]_vars

\* The mode names a supportedThermostatModes value stands for when it is a
\* list of mode names or the JSON text of one; no names for any other value.
ModeNames(attributes) ==
    LET v == Get(attributes, "supportedThermostatModes", Str("[]"))
        decoded == IF IsStr(v) THEN JsonLoads(v.str) ELSE v
    IN  IF IsList(decoded)
        THEN {decoded.list[i].str : i \in 1..Len(decoded.list)}
        ELSE {}

\* C14: create_climate_entity raises for no value of supportedThermostatModes;
\* a value that is no list of mode names (text that is not JSON, text that
\* decodes to a number or null, null, a number) counts as the empty list and
\* gives exactly the feature on_off; a list or JSON text of a list adds heat
\* and cool as it names them.
C14_NeverRaises ==
    last.op = "create_climate_entity" =>
        /\ ~IsRaise(last.ret)
        /\ last.ret.features =
              <<"on_off">>
              \o (IF "heat" \in ModeNames(last.attributes) THEN <<"heat">> ELSE <<>>)
              \o (IF "cool" \in ModeNames(last.attributes) THEN <<"cool">> ELSE <<>>)

\* The state the code reaches instead: supportedThermostatModes was the text
\* null, and create_climate_entity raised.
C14_Witness ==
    /\ last.op = "create_climate_entity"
    /\ Get(last.attributes, "supportedThermostatModes", Missing) = Str("null")
    /\ IsRaise(last.ret)

\* The entity was built with the feature.
HasFeature(entity, feature) ==
    \E i \in 1..Len(entity.features) : entity.features[i] = feature

\* The entity attribute is there exactly when the device attribute is, and
\* then holds its value as a float; a device attribute that is there with a
\* null value is left out of the comparison.
SetpointFollows(call, feature, device_attribute, entity_attribute) ==
    HasFeature(call.ret, feature) =>
        LET v == Get(call.attributes, device_attribute, Missing) IN
        /\ v = Missing => entity_attribute \notin DOMAIN call.ret.attributes
        /\ (v # Missing /\ ~IsNone(v)) =>
              /\ entity_attribute \in DOMAIN call.ret.attributes
              /\ call.ret.attributes[entity_attribute] = Float(v)

\* C15: a climate entity built with the heat feature has
\* target_temperature_heat exactly when the device's normalized attributes
\* contain heatingSetpoint, and then with its value; without heatingSetpoint
\* the attribute is omitted, not defaulted.  The same for the cool feature,
\* coolingSetpoint and target_temperature_cool.
C15_SetpointOmitted ==
    (last.op = "create_climate_entity" /\ ~IsRaise(last.ret)) =>
        /\ SetpointFollows(last, "heat", "heatingSetpoint", "target_temperature_heat")
        /\ SetpointFollows(last, "cool", "coolingSetpoint", "target_temperature_cool")

\* The state the code reaches instead: a thermostat supporting heat and cool
\* reported neither setpoint, and the entity got 20 and 24.
C15_Witness ==
    /\ last.op = "create_climate_entity"
    /\ ~IsRaise(last.ret)
    /\ HasFeature(last.ret, "heat")
    /\ HasFeature(last.ret, "cool")
    /\ "heatingSetpoint" \notin DOMAIN last.attributes
    /\ "coolingSetpoint" \notin DOMAIN last.attributes
    /\ last.ret.attributes["target_temperature_heat"] = Num(20)
    /\ last.ret.attributes["target_temperature_cool"] = Num(24)

----------------------------------------------------------------------------
(* Properties of the command handler, continued (SpecCmd) *)

\* The attributes a turn-on of a light patches, given its parameters.
SuppliedPatch(params) ==
    (IF "brightness" \in DOMAIN params THEN {"brightness"} ELSE {})
    \cup (IF {"hue", "saturation"} \subseteq DOMAIN params
          THEN {"hue", "saturation"} ELSE {})
    \cup (IF "color_temperature" \in DOMAIN params THEN {"color_temperature"} ELSE {})

\* C16: a turn-on of a light sends setLevel only if brightness is supplied,
\* then setColor only if hue and saturation are both supplied, then
\* setColorTemperature only if color_temperature is supplied, and last, in
\* every case, a plain on.  Afterwards the cached state is ON, each supplied
\* attribute holds the supplied value (hue and saturation only as a pair),
\* and every other attribute is as it was.
C16_LightOnOrder ==
    (/\ last.op = "command"
     /\ ~IsNone(hubitat_client)
     /\ last.entity.kind = "light"
     /\ last.cmd_id = CMD_ON) =>
        LET params == last.params
            before == last.entity.attributes
            after == last.attributes
            n == Len(last.sent)
        IN  /\ CommandsOf(last.sent) =
                  (IF "brightness" \in DOMAIN params THEN <<"setLevel">> ELSE <<>>)
                  \o (IF {"hue", "saturation"} \subseteq DOMAIN params
                      THEN <<"setColor">> ELSE <<>>)
                  \o (IF "color_temperature" \in DOMAIN params
                      THEN <<"setColorTemperature">> ELSE <<>>)
                  \o <<"on">>
            /\ last.sent[n].parameters = <<>>
            /\ \A i \in 1..n :
                  /\ last.sent[i].device_id = last.entity.id
                  /\ last.sent[i].command = "setLevel" =>
                        last.sent[i].parameters = <<params["brightness"]>>
                  /\ last.sent[i].command = "setColor" =>
                        last.sent[i].parameters =
                           <<[hue |-> params["hue"], saturation |-> params["saturation"]]>>
                  /\ last.sent[i].command = "setColorTemperature" =>
                        last.sent[i].parameters = <<params["color_temperature"]>>
            /\ DOMAIN after = DOMAIN before \cup {"state"} \cup SuppliedPatch(params)
            /\ \A k \in DOMAIN after :
                  after[k] = IF k = "state" THEN "ON"
                             ELSE IF k \in SuppliedPatch(params) THEN params[k]
                             ELSE before[k]
            /\ last.registered => entities[last.entity.id].attributes = after
            /\ last.status = "OK"

\* A registered light that was OFF got a turn-on with brightness and hue but
\* no saturation: setLevel and on were sent, and no hue was cached.
C16_Witness ==
    /\ last.op = "command"
    /\ last.registered
    /\ last.entity.kind = "light"
    /\ last.entity.attributes["state"] = "OFF"
    /\ last.cmd_id = CMD_ON
    /\ DOMAIN last.params = {"brightness", "hue"}
    /\ CommandsOf(last.sent) = <<"setLevel", "on">>
    /\ "hue" \notin DOMAIN entities[last.entity.id].attributes
    /\ entities[last.entity.id].attributes["state"] = "ON"

\* A call of the handler on a climate entity with the given command id.
ClimateCall(call, cmd_id) ==
    /\ call.op = "command"
    /\ call.entity.kind = "climate"
    /\ call.cmd_id = cmd_id

\* The hub mode command and cached state a climate turn-on resumes.
ResumedMode(cached) ==
    IF cached = "COOL" THEN [command |-> "cool", state |-> "COOL"]
    ELSE IF cached = "AUTO" THEN [command |-> "auto", state |-> "AUTO"]
    ELSE [command |-> "heat", state |-> "HEAT"]

\* C17: a turn-on of a climate entity sends exactly one hub mode command,
\* chosen by the cached state, and sets the cached state to match: heat for
\* HEAT, cool for COOL, auto for AUTO, and heat with state HEAT for OFF or no
\* cached state.  So a turn-on handled directly after a turn-off of the same
\* entity leaves it in HEAT whatever the mode was before the turn-off.
C17_ClimateOn ==
    [][(~IsNone(hubitat_client') /\ ClimateCall(last', CMD_ON)) =>
          LET call == last'
              cached == Get(call.entity.attributes, "state", "HEAT")
          IN  /\ Len(call.sent) = 1
              /\ call.sent[1].device_id = call.entity.id
              /\ call.sent[1].command = ResumedMode(cached).command
              /\ call.sent[1].parameters = <<>>
              /\ call.attributes["state"] = ResumedMode(cached).state
              /\ call.registered =>
                    entities'[call.entity.id].attributes["state"]
                       = ResumedMode(cached).state
              /\ (/\ ClimateCall(last, CMD_OFF)
                  /\ last.registered
                  /\ call.registered
                  /\ last.entity.id = call.entity.id) =>
                    /\ entities[call.entity.id].attributes["state"] = "OFF"
                    /\ CommandsOf(call.sent) = <<"heat">>
                    /\ entities'[call.entity.id].attributes["state"] = "HEAT"]_vars

\* A registered thermostat whose cached state was OFF, after having been in
\* COOL, was turned on: heat was sent and the cached state is HEAT.
C17_Witness ==
    /\ ClimateCall(last, CMD_ON)
    /\ last.registered
    /\ last.entity.attributes["state"] = "OFF"
    /\ last.entity.attributes["target_temperature_cool"] = Num(24)
    /\ CommandsOf(last.sent) = <<"heat">>
    /\ entities[last.entity.id].attributes["state"] = "HEAT"

\* The cached state that corresponds to an on/off/mode command, by entity
\* class.
CachedFor(kind, command) ==
    IF kind = "climate"
    THEN CASE command = "off" -> "OFF"
           [] command = "heat" -> "HEAT"
           [] command = "cool" -> "COOL"
           [] command = "auto" -> "AUTO"
           [] OTHER -> "none"
    ELSE CASE command = "on" -> "ON"
           [] command = "off" -> "OFF"
           [] OTHER -> "none"

\* C18: with commands handled one at a time, after any sequence of commands
\* on a registered entity its cached state corresponds to the last on/off
\* command (light, switch) or off/heat/cool/auto command (climate) sent to
\* the hub for it; and a call that sends no such command leaves the cached
\* state as it was.
C18_CacheFollowsLastCommand ==
    (last.op = "command" /\ ~IsNone(hubitat_client)) =>
        /\ \A id \in DOMAIN entities :
              ~IsNone(last.state_command) =>
                 entities[id].attributes["state"]
                    = CachedFor(entities[id].kind, last.state_command.str)
        /\ LET sent_now == LastStateCommand(last.sent, None) IN
           IF IsNone(sent_now)
           THEN last.attributes["state"] = last.entity.attributes["state"]
           ELSE last.attributes["state"] = CachedFor(last.entity.kind, sent_now.str)

\* The last mode command sent for a registered thermostat was heat, and the
\* call just handled on it, a target temperature, sent a setpoint and no mode
\* command: the cached state is HEAT.
C18_Witness ==
    /\ last.op = "command"
    /\ last.registered
    /\ last.entity.kind = "climate"
    /\ last.cmd_id = CMD_TARGET_TEMPERATURE
    /\ Len(last.sent) = 1
    /\ last.state_command = Str("heat")
    /\ "target_temperature_cool" \in DOMAIN last.entity.attributes
    /\ entities[last.entity.id].attributes["state"] = "HEAT"

----------------------------------------------------------------------------
(* Overlapping command handlers on the event loop *)

\* Two calls of device_command_handler for the same registered light or
\* switch.  A handler runs without interruption from its start to the await
\* of send_command; its request then reaches the hub at some point; when the
\* response (or the failure) arrives the handler resumes, assigns the state
\* its branch decided at the start, and returns.  pc maps each handler to
\* where it is; last holds the commands in the order the hub was sent them.
Handlers == {1, 2}

Suspended(h) == pc[h].at \in {"connecting", "awaiting"}

InitOverlap ==
    /\ pc = [h \in Handlers |-> [at |-> "idle"]]
    /\ hubitat_client = TheClient
    /\ config_file = FileJson(ValidInput)
    /\ \E device \in {Dimmer(1), Outlet(2)} : entities = LoadOne(EmptyDict, device)
    /\ last = [op |-> "overlap", sent |-> <<>>]

\* driver.py:40-47 and the branch up to its await: the handler reads the
\* cached state, picks the hub command and the state to assign after the
\* await, and is suspended inside send_command.  The second handler starts
\* while the first is suspended.
Start(h) ==
    /\ pc[h].at = "idle"
    /\ h = 1 \/ Suspended(1)
    /\ \E id \in DOMAIN entities, cmd_id \in {CMD_ON, CMD_OFF, CMD_TOGGLE} :
          \E r \in {device_command_handler(hubitat_client, entities[id], cmd_id,
                                           EmptyDict, <<R200, R200, R200, R200>>)} :
             pc' = [pc EXCEPT ![h] = [at |-> "connecting", id |-> id, cmd_id |-> cmd_id,
                                      command |-> r.sent[1].command,
                                      assign |-> r.attributes["state"]]]
    /\ UNCHANGED <<hubitat_client, entities, config_file, last>>

\* hubitat.py:122-124: session.get(url) puts the request on the wire.
Transmit(h) ==
    /\ pc[h].at = "connecting"
    /\ pc' = [pc EXCEPT ![h].at = "awaiting"]
    /\ last' = [last EXCEPT !.sent = Append(@, [handler |-> h, device_id |-> pc[h].id,
                                                 command |-> pc[h].command])]
    /\ UNCHANGED <<hubitat_client, entities, config_file>>

\* hubitat.py:124-133 and the statement after the await: the hub's answer
\* arrives, send_command returns, the handler assigns the state and returns
\* OK.
Complete(h) ==
    /\ pc[h].at = "awaiting"
    /\ \E resp \in Responses :
          pc' = [pc EXCEPT ![h] = [at |-> "done", id |-> pc[h].id, cmd_id |-> pc[h].cmd_id,
                                   command |-> pc[h].command, assign |-> pc[h].assign,
                                   ret |-> send_command(resp), status |-> "OK"]]
    /\ entities' = [entities EXCEPT ![pc[h].id].attributes =
                                       Put(@, "state", pc[h].assign)]
    /\ UNCHANGED <<hubitat_client, config_file, last>>

NextOverlap ==
    \E h \in Handlers :
        \/ Start(h)
        \/ Transmit(h)
        \/ Complete(h)

SpecOverlap == InitOverlap /\ [][NextOverlap]_vars

\* Both handlers have returned.
BothDone == \A h \in Handlers : pc[h].at = "done"

\* C19: when two handlers for the same entity overlap, the second starting
\* while the first is suspended in its hub request and the two requests
\* completing in either order, then once both have returned the entity's
\* cached state corresponds to the last on/off command the hub was sent for
\* the device.
C19_OverlapConsistent ==
    BothDone =>
        \A id \in DOMAIN entities :
            entities[id].attributes["state"]
               = CachedFor(entities[id].kind, last.sent[Len(last.sent)].command)

\* The state the code reaches instead: a turn-on and then a turn-off were
\* sent to the hub in that order, the turn-off's handler returned first, and
\* the cached state is ON.
C19_Witness ==
    /\ BothDone
    /\ pc[1].cmd_id = CMD_ON
    /\ pc[2].cmd_id = CMD_OFF
    /\ CommandsOf(last.sent) = <<"on", "off">>
    /\ last.sent[2].handler = 2
    /\ \A id \in DOMAIN entities : entities[id].attributes["state"] = "ON"

====
